---- MODULE Spec2Model ----
(***************************************************************************)
(* A model of lsst.display.ginga.DisplayImpl                               *)
(* (src/python/lsst/display/ginga/ginga.py): the canvas of overlay         *)
(* objects, the redraw flag, the mask transparency, and the mask-to-RGBA   *)
(* compositing done by _mtv.                                               *)
(*                                                                         *)
(* Representation.                                                         *)
(*  - The mask array is flattened: Pixels indexes the height x width grid  *)
(*    in row-major order; every array statement of _mtv is elementwise.    *)
(*  - A mask plane is named by an index 1..NumPlanes; MaskPlaneDict gives  *)
(*    its bit number.                                                      *)
(*  - A transparency is held in hundredths: the integer v stands for the   *)
(*    double 0.01 * v (the literal 0.8 is the same double as 0.01 * 80).   *)
(*  - An optional value (Python None or a value) is <<>> or <<value>>.     *)
(***************************************************************************)
EXTENDS Integers, Sequences, FiniteSets, TLC

\* ------------------------------------------------------------- bounds
NumPixels == 2
NumPlanes == 2
MaxCanvas == 2
MaxPoints == 3
MaxCmds == 2

\* ---------------------------------------------------------- constants
DefaultTransparency == 80
ByteMod == 256
FlushWhence == 3

Pixels == 1..NumPixels
PlaneNames == 1..NumPlanes
Transparencies == {50, 100}
ExplicitColors == {"red", "lime"}
\* what display.getMaskPlaneColor returns: nothing (""), a colour, or
\* ignore, here in capitals (the code compares it in lower case)
ColorSettings == {"", "IGNORE"} \cup ExplicitColors
R == 1
G == 2
B == 3
A == 4

\* ------------------------------------------------------------ helpers
RECURSIVE Shift(_)
\* 1 << n
Shift(n) == IF n = 0 THEN 1 ELSE 2 * Shift(n - 1)

\* the value of body with its parameter bound to x, x evaluated once (a
\* local variable holding x)
With(x, body(_)) == CHOOSE r \in {body(v) : v \in {x}} : TRUE

RECURSIVE Perms(_)
\* every iteration order a dictionary over the names S can have
Perms(S) ==
  IF S = {} THEN {<<>>}
  ELSE UNION {{<<x>> \o s : s \in Perms(S \ {x})} : x \in S}

\* mask.getMaskPlaneDict(): plane name -> bit number
MaskPlaneDict == [name \in PlaneNames |-> name - 1]

\* display.maskColorGenerator(omitBW=True): the k-th colour it yields (k >= 1)
MaskColors == <<"red", "green", "blue", "cyan", "magenta", "yellow", "orange">>
GeneratorColor(k) == MaskColors[((k - 1) % Len(MaskColors)) + 1]

\* 255 * colorConverter.to_rgb(color), stored into a uint8 array
ToRGB8(color) ==
  CASE color = "red" -> <<255, 0, 0>>
    [] color = "lime" -> <<0, 255, 0>>
    [] color = "green" -> <<0, 128, 0>>
    [] color = "blue" -> <<0, 0, 255>>
    [] color = "cyan" -> <<0, 255, 255>>
    [] color = "magenta" -> <<255, 0, 255>>
    [] color = "yellow" -> <<255, 255, 0>>
    [] color = "orange" -> <<255, 165, 0>>

\* color.lower()
Lower(color) == IF color = "IGNORE" THEN "ignore" ELSE color

\* ------------------------------------------------- _mtv: compositing
\* np.zeros((height, width, 4), dtype=uint8)
ZeroRGBA == [p \in Pixels |-> <<0, 0, 0, 0>>]
\* np.zeros_like(maska, dtype="uint8")
ZeroCount == [p \in Pixels |-> 0]

\* isSet = maska & (1 << maskPlaneNum) != 0
IsSet(maska, maskPlaneNum) ==
  [p \in Pixels |-> (maska[p] \div Shift(maskPlaneNum)) % 2 # 0]

\* (isSet == 0).all()
NoBitsSet(isSet) == \A p \in Pixels : ~isSet[p]

\* Paint with the channels written in B, G, R order
Paint_BGR(maskRGB, isSet, rgb) ==
  [p \in Pixels |->
     IF isSet[p] THEN <<rgb[B], rgb[G], rgb[R], maskRGB[p][A]>> ELSE maskRGB[p]]

\* maskRGB[:, :, C][isSet] = 255 * c  for C in R, G, B
Paint(maskRGB, isSet, rgb) ==
  [p \in Pixels |->
     IF isSet[p] THEN <<rgb[R], rgb[G], rgb[B], maskRGB[p][A]>> ELSE maskRGB[p]]

\* nSet[isSet] += 1
Count(nSet, isSet) ==
  [p \in Pixels |-> IF isSet[p] THEN (nSet[p] + 1) % ByteMod ELSE nSet[p]]

\* the locals of the loop before its first iteration
LoopStart ==
  [maskRGB |-> ZeroRGBA, nSet |-> ZeroCount, used |-> 0,
   color |-> [name \in PlaneNames |-> "<skipped>"]]

\* PlaneStep drawing the fallback colour before it looks for set bits
PlaneStep_DrawsFirst(acc, maska, name, colors) ==
  LET isSet == IsSet(maska, MaskPlaneDict[name])
      color == colors[name]
      used == IF color = "" THEN acc.used + 1 ELSE acc.used
  IN IF NoBitsSet(isSet) THEN [acc EXCEPT !.used = used]
     ELSE IF color = "" THEN
       [maskRGB |-> Paint(acc.maskRGB, isSet, ToRGB8(GeneratorColor(used))),
        nSet |-> Count(acc.nSet, isSet),
        used |-> used,
        color |-> [acc.color EXCEPT ![name] = GeneratorColor(used)]]
     ELSE IF Lower(color) = "ignore" THEN
       [acc EXCEPT !.color[name] = "<ignored>"]
     ELSE
       [maskRGB |-> Paint(acc.maskRGB, isSet, ToRGB8(color)),
        nSet |-> Count(acc.nSet, isSet),
        used |-> acc.used,
        color |-> [acc.color EXCEPT ![name] = color]]

\* PlaneStep counting the pixels of an ignored plane as covered
PlaneStep_IgnoredCounts(acc, maska, name, colors) ==
  LET isSet == IsSet(maska, MaskPlaneDict[name])
      color == colors[name]
  IN IF NoBitsSet(isSet) THEN acc
     ELSE IF color = "" THEN
       LET c == GeneratorColor(acc.used + 1)
       IN [maskRGB |-> Paint(acc.maskRGB, isSet, ToRGB8(c)),
           nSet |-> Count(acc.nSet, isSet),
           used |-> acc.used + 1,
           color |-> [acc.color EXCEPT ![name] = c]]
     ELSE IF Lower(color) = "ignore" THEN
       [acc EXCEPT !.nSet = Count(acc.nSet, isSet), !.color[name] = "<ignored>"]
     ELSE
       [maskRGB |-> Paint(acc.maskRGB, isSet, ToRGB8(color)),
        nSet |-> Count(acc.nSet, isSet),
        used |-> acc.used,
        color |-> [acc.color EXCEPT ![name] = color]]

\* one iteration of the loop over the plane dictionary
PlaneStep(acc, maska, name, colors) ==
  LET isSet == IsSet(maska, MaskPlaneDict[name])
      color == colors[name]
  IN IF NoBitsSet(isSet) THEN acc
     ELSE IF color = "" THEN
       LET c == GeneratorColor(acc.used + 1)
       IN [maskRGB |-> Paint(acc.maskRGB, isSet, ToRGB8(c)),
           nSet |-> Count(acc.nSet, isSet),
           used |-> acc.used + 1,
           color |-> [acc.color EXCEPT ![name] = c]]
     ELSE IF Lower(color) = "ignore" THEN
       [acc EXCEPT !.color[name] = "<ignored>"]
     ELSE
       [maskRGB |-> Paint(acc.maskRGB, isSet, ToRGB8(color)),
        nSet |-> Count(acc.nSet, isSet),
        used |-> acc.used,
        color |-> [acc.color EXCEPT ![name] = color]]

RECURSIVE PlaneLoop(_, _, _, _)
\* for maskPlaneName, maskPlaneNum in mask.getMaskPlaneDict().items()
PlaneLoop(acc, maska, order, colors) ==
  IF order = <<>> THEN acc
  ELSE With(PlaneStep(acc, maska, Head(order), colors),
            LAMBDA next : PlaneLoop(next, maska, Tail(order), colors))

\* GlobalAlpha falling back to the constructor's value
GlobalAlpha_Default(dispAlpha, internal) ==
  IF dispAlpha = <<>> THEN DefaultTransparency ELSE dispAlpha[1]

\* alpha = display.getMaskTransparency(); if None: self._getMaskTransparency()
GlobalAlpha(dispAlpha, internal) ==
  IF dispAlpha = <<>> THEN internal ELSE dispAlpha[1]

\* 255 * (1 - alpha) in double precision, stored into a uint8 array
\* (truncated); of the whole percents 0..100 only 0.8 falls below the
\* exact product: 255 * (1 - 0.8) = 50.999999999999986
AlphaByte(alpha) ==
  IF alpha = 80 THEN 50 ELSE (255 * (100 - alpha)) \div 100

\* SetAlpha without the second statement
SetAlpha_Uniform(maskRGB, nSet, alpha) ==
  [p \in Pixels |->
     <<maskRGB[p][R], maskRGB[p][G], maskRGB[p][B], AlphaByte(alpha)>>]

\* maskRGB[:, :, A] = 255 * (1 - alpha); maskRGB[:, :, A][nSet == 0] = 0
SetAlpha(maskRGB, nSet, alpha) ==
  [p \in Pixels |->
     <<maskRGB[p][R], maskRGB[p][G], maskRGB[p][B],
       IF nSet[p] = 0 THEN 0 ELSE AlphaByte(alpha)>>]

\* nSet[nSet == 0] = 1; maskRGB[:, :, C] //= nSet  for C in R, G, B
Normalize(maskRGB, nSet) ==
  [p \in Pixels |->
     LET n == IF nSet[p] = 0 THEN 1 ELSE nSet[p]
     IN <<maskRGB[p][R] \div n, maskRGB[p][G] \div n, maskRGB[p][B] \div n,
          maskRGB[p][A]>>]

\* the mask branch of _mtv up to the RGBA array handed to RGBImage
Composite(maska, order, colors, alpha) ==
  With(PlaneLoop(LoopStart, maska, order, colors),
       LAMBDA acc :
         [maskRGB |-> Normalize(SetAlpha(acc.maskRGB, acc.nSet, alpha), acc.nSet),
          nSet |-> acc.nSet, used |-> acc.used, color |-> acc.color])

\* ---------------------------------------------------------------- state
VARIABLES
  canvas,            \* self._canvas: the overlay objects, in the order added
  redraw,            \* self._redraw
  maskTransparency,  \* self._maskTransparency, in hundredths
  viewerImage,       \* whether self._viewer has been given an image
  env,               \* the caller's mask, its plane dictionary order and the
                     \* display's plane colours (display.getMaskPlaneColor)
  last               \* the most recent call: arguments, locals at return, outcome

vars == <<canvas, redraw, maskTransparency, viewerImage, env, last>>

Masks == [Pixels -> 0..(Shift(NumPlanes) - 1)]
Envs == [mask : Masks, order : Perms(PlaneNames), colors : [PlaneNames -> ColorSettings]]

\* the environment of the full adapter: planes in ascending order, the first
\* plane red and the others uncoloured, every plane set on the first pixel
\* and no plane on the others
SampleEnvs ==
  {e \in Envs :
     /\ \A i \in PlaneNames : e.order[i] = i
     /\ \A n \in PlaneNames : e.colors[n] = IF n = 1 THEN "red" ELSE ""
     /\ \A p \in Pixels : e.mask[p] = IF p = 1 THEN Shift(NumPlanes) - 1 ELSE 0}

\* a drawing object of the canvas
Obj(kind) == [kind |-> kind, data |-> <<>>]
\* Image(0, 0, RGBImage(data_np=maskRGB))
ImageObj(maskRGB) == [kind |-> "image", data |-> maskRGB]

NoCall ==
  [op |-> "init", outcome |-> "ok", payload |-> <<>>, symb |-> "", cmds |-> <<>>,
   adds |-> <<>>, whence |-> <<>>, transparency |-> <<>>, maskplane |-> <<>>,
   ret |-> <<>>, enable |-> <<>>, deleted |-> 0, hasMask |-> FALSE, dispAlpha |-> <<>>,
   alpha |-> <<>>, nSet |-> <<>>, used |-> 0, color |-> <<>>]

\* DisplayImpl.__init__
InitImpl ==
  /\ canvas = <<>>
  /\ redraw = TRUE
  /\ maskTransparency = DefaultTransparency
  /\ viewerImage = FALSE
  /\ last = NoCall

Init == InitImpl /\ env \in SampleEnvs

\* ------------------------------------------------------------ operations
\* _setMaskTransparency(transparency, maskplane)
SetMaskTransparency(transparency, maskplane) ==
  IF maskplane # <<>>
  THEN \* the message is %-formatted with an argument it has no place for
       /\ last' = [NoCall EXCEPT !.op = "setMaskTransparency", !.outcome = "TypeError",
                                 !.transparency = <<transparency>>,
                                 !.maskplane = maskplane]
       /\ UNCHANGED <<canvas, redraw, maskTransparency, viewerImage, env>>
  ELSE /\ maskTransparency' = transparency
       /\ last' = [NoCall EXCEPT !.op = "setMaskTransparency",
                                 !.transparency = <<transparency>>]
       /\ UNCHANGED <<canvas, redraw, viewerImage, env>>

\* _getMaskTransparency(maskplane)
GetMaskTransparency(maskplane) ==
  /\ last' = [NoCall EXCEPT !.op = "getMaskTransparency", !.maskplane = maskplane,
                            !.ret = <<maskTransparency>>]
  /\ UNCHANGED <<canvas, redraw, maskTransparency, viewerImage, env>>

\* EraseCanvas deleting the drawn symbols only
EraseCanvas_KeepsImages(objects) == SelectSeq(objects, LAMBDA o : o.kind = "image")

\* self._canvas.delete_all_objects()
EraseCanvas(objects) == <<>>

Erase ==
  /\ canvas' = EraseCanvas(canvas)
  /\ last' = [NoCall EXCEPT !.op = "erase", !.deleted = Len(canvas)]
  /\ UNCHANGED <<redraw, maskTransparency, viewerImage, env>>

\* self._canvas.add(maskImageRGBA) on the canvas _mtv has emptied
AddMaskImage(objects, maskRGB) == Append(objects, ImageObj(maskRGB))

\* _mtv(image, mask): dispAlpha is what display.getMaskTransparency() returns
Mtv(image, hasMask, dispAlpha) ==
  \E alpha \in {GlobalAlpha(dispAlpha, maskTransparency)},
     erased \in {EraseCanvas(EraseCanvas(canvas))},
     c \in (IF hasMask
           THEN {Composite(env.mask, env.order, env.colors,
                           GlobalAlpha(dispAlpha, maskTransparency))}
           ELSE {LoopStart}) :
     /\ viewerImage' = (image \/ viewerImage)
     /\ canvas' = IF hasMask THEN AddMaskImage(erased, c.maskRGB) ELSE erased
     /\ last' = IF hasMask
                THEN [NoCall EXCEPT !.op = "mtv", !.hasMask = TRUE,
                                    !.deleted = Len(canvas),
                                    !.dispAlpha = dispAlpha, !.alpha = <<alpha>>,
                                    !.nSet = c.nSet, !.used = c.used,
                                    !.color = c.color]
                ELSE [NoCall EXCEPT !.op = "mtv", !.deleted = Len(canvas)]
     /\ UNCHANGED <<redraw, maskTransparency, env>>

\* _buffer(enable)
Buffer(enable) ==
  /\ redraw' = ~enable
  /\ last' = [NoCall EXCEPT !.op = "buffer", !.enable = <<enable>>]
  /\ UNCHANGED <<canvas, maskTransparency, viewerImage, env>>

\* _flush(): self._viewer.redraw(whence=3)
Flush ==
  /\ last' = [NoCall EXCEPT !.op = "flush", !.whence = <<FlushWhence>>]
  /\ UNCHANGED <<canvas, redraw, maskTransparency, viewerImage, env>>

\* self._canvas.add(obj, redraw=self._redraw) for each object drawn
AddObjects(objects, kinds) ==
  objects \o [i \in 1..Len(kinds) |-> Obj(kinds[i])]

\* RedrawArgs with the default of canvas.add
RedrawArgs_Always(n, flag) == [i \in 1..n |-> TRUE]

\* the redraw argument of each of n canvas.add calls
RedrawArgs(n, flag) == [i \in 1..n |-> flag]

\* the region commands ds9Regions.dot returns, each the words before its
\* '#': lines for + x *, text for a string, an ellipse for @:Mxx,Mxy,Myy
RegionCommands ==
  {<<"line", "args">>, <<"text", "args">>, <<"ellipse", "args">>}

RECURSIVE SeqsUpTo(_, _)
SeqsUpTo(S, n) ==
  IF n = 0 THEN {<<>>}
  ELSE SeqsUpTo(S, n - 1) \cup {Append(s, x) : s \in SeqsUpTo(S, n - 1), x \in S}

RECURSIVE DrawRegions_RaisesWord(_, _)
\* DrawRegions raising with cmd, by then the first word of the command
DrawRegions_RaisesWord(cmds, drawn) ==
  IF cmds = <<>> THEN [drawn |-> drawn, outcome |-> "ok", payload |-> <<>>]
  ELSE LET ds9Cmd == Head(cmds)
       IN IF ds9Cmd[1] = "line"
          THEN DrawRegions_RaisesWord(Tail(cmds), Append(drawn, "line"))
          ELSE IF ds9Cmd[1] = "text"
          THEN DrawRegions_RaisesWord(Tail(cmds), Append(drawn, "text"))
          ELSE [drawn |-> drawn, outcome |-> "RuntimeError",
                payload |-> <<<<ds9Cmd[1]>>>>]

RECURSIVE DrawRegions(_, _)
\* the loop of _dot over the region commands: the kinds drawn so far and
\* how the loop ends
DrawRegions(cmds, drawn) ==
  IF cmds = <<>> THEN [drawn |-> drawn, outcome |-> "ok", payload |-> <<>>]
  ELSE LET ds9Cmd == Head(cmds)
       IN IF ds9Cmd[1] = "line"
          THEN DrawRegions(Tail(cmds), Append(drawn, "line"))
          ELSE IF ds9Cmd[1] = "text"
          THEN DrawRegions(Tail(cmds), Append(drawn, "text"))
          ELSE [drawn |-> drawn, outcome |-> "RuntimeError", payload |-> <<ds9Cmd>>]

\* the branch of _dot taken for symb, with cmds what ds9Regions.dot returns
DotResult(symb, cmds) ==
  IF symb = "BaseCore"
  THEN [drawn |-> <<"ellipse">>, outcome |-> "ok", payload |-> <<>>]
  ELSE IF symb = "o"
  THEN [drawn |-> <<"circle">>, outcome |-> "ok", payload |-> <<>>]
  ELSE DrawRegions(cmds, <<>>)

\* _dot(symb, c, r, size, ctype)
Dot(symb, cmds) ==
  \E res \in {DotResult(symb, cmds)} :
     /\ Len(canvas) + Len(res.drawn) <= MaxCanvas
     /\ canvas' = AddObjects(canvas, res.drawn)
     /\ last' = [NoCall EXCEPT !.op = "dot", !.symb = symb, !.cmds = cmds,
                               !.outcome = res.outcome, !.payload = res.payload,
                               !.adds = RedrawArgs(Len(res.drawn), redraw)]
     /\ UNCHANGED <<redraw, maskTransparency, viewerImage, env>>

\* the lines _drawLines adds for a list of npoints points
LinesFor(npoints) == [i \in 1..(npoints - 1) |-> "line"]

\* _drawLines(points, ctype)
DrawLines(npoints) ==
  IF npoints = 0
  THEN \* points[0] of an empty list
       /\ last' = [NoCall EXCEPT !.op = "drawLines", !.outcome = "IndexError"]
       /\ UNCHANGED <<canvas, redraw, maskTransparency, viewerImage, env>>
  ELSE /\ Len(canvas) + Len(LinesFor(npoints)) <= MaxCanvas
       /\ canvas' = AddObjects(canvas, LinesFor(npoints))
       /\ last' = [NoCall EXCEPT !.op = "drawLines",
                                 !.adds = RedrawArgs(Len(LinesFor(npoints)), redraw)]
       /\ UNCHANGED <<redraw, maskTransparency, viewerImage, env>>

\* --------------------------------------------------------- specification
RegionLists == SeqsUpTo(RegionCommands, MaxCmds)
MaskPlaneArgs == {<<>>, <<1>>}
AlphaResults == {<<>>} \cup {<<t>> : t \in Transparencies}
Symbols == {"BaseCore", "o", "+"}

SetMaskTransparencyCall ==
  \E t \in Transparencies, mp \in MaskPlaneArgs : SetMaskTransparency(t, mp)
GetMaskTransparencyCall == \E mp \in MaskPlaneArgs : GetMaskTransparency(mp)
MtvCall ==
  \E image \in BOOLEAN, hasMask \in BOOLEAN, d \in AlphaResults :
     Mtv(image, hasMask, d)
BufferCall == \E enable \in BOOLEAN : Buffer(enable)
DotCall ==
  \E symb \in Symbols :
     \E cmds \in (IF symb = "+" THEN RegionLists ELSE {<<>>}) :
        Dot(symb, cmds)
DrawLinesCall == \E npoints \in 0..MaxPoints : DrawLines(npoints)

Next ==
  \/ SetMaskTransparencyCall
  \/ GetMaskTransparencyCall
  \/ MtvCall
  \/ BufferCall
  \/ Flush
  \/ Erase
  \/ DotCall
  \/ DrawLinesCall

Spec == Init /\ [][Next]_vars

\* the compositing of every mask, plane order and colour assignment
\* The environments are drawn up to renaming: the pixels are treated alike
\* and independently, so a mask is drawn up to a reordering of its pixels;
\* and the planes are named in the order the dictionary iterates them, the
\* masks and the colours ranging over every bit pattern and assignment.
InitComposite ==
  /\ InitImpl
  /\ env \in {e \in Envs :
                /\ \A p \in Pixels : p > 1 => e.mask[p - 1] <= e.mask[p]
                /\ \A i \in PlaneNames : e.order[i] = i}
NextComposite == \E d \in AlphaResults : Mtv(TRUE, TRUE, d)
SpecComposite == InitComposite /\ [][NextComposite]_vars

\* ------------------------------------------------------------- properties
\* the most recent call was an _mtv that composited the mask; canvas[1] is
\* then the image it added
MaskShown == last.op = "mtv" /\ last.hasMask
Shown == canvas[1].data

\* pixel p has the bit of plane n set
InPlane(p, n) == (env.mask[p] \div (2 ^ MaskPlaneDict[n])) % 2 = 1
HasSetPixel(n) == \E p \in Pixels : InPlane(p, n)
Ignored(n) == env.colors[n] \in {"ignore", "IGNORE"}
Unconfigured(n) == env.colors[n] = ""
\* the planes that contribute to pixel p
Contributing(p) == {n \in PlaneNames : InPlane(p, n) /\ ~Ignored(n)}
\* the global alpha of the most recent _mtv
UsedAlpha == IF last.dispAlpha = <<>> THEN maskTransparency ELSE last.dispAlpha[1]

\* the place of plane n in the dictionary's iteration order
Pos(n) == CHOOSE i \in 1..Len(env.order) : env.order[i] = n
\* the planes that take a colour from the fallback generator
Qualifies(n) == HasSetPixel(n) /\ Unconfigured(n)
Rank(n) == Cardinality({m \in PlaneNames : Qualifies(m) /\ Pos(m) <= Pos(n)})
\* the colour plane n is drawn in
Resolved(n) == IF Unconfigured(n) THEN GeneratorColor(Rank(n)) ELSE env.colors[n]

RECURSIVE SumChannel(_, _)
SumChannel(S, ch) ==
  IF S = {} THEN 0
  ELSE LET n == CHOOSE x \in S : TRUE
       IN ToRGB8(env.colors[n])[ch] + SumChannel(S \ {n}, ch)

\* C1: with every plane explicitly coloured, each covered pixel's R, G and B
\* are the sum of the contributing planes' channel values divided (integer
\* division) by the number of contributing planes.
C1_AverageOfContributing ==
  (MaskShown /\ \A n \in PlaneNames : env.colors[n] \in ExplicitColors) =>
    \A p \in Pixels : Contributing(p) # {} =>
      \A ch \in {R, G, B} :
        Shown[p][ch] =
          SumChannel(Contributing(p), ch) \div Cardinality(Contributing(p))

\* C2: when every plane with set pixels has an explicit colour, the composite
\* image is the same for every iteration order of the plane dictionary.
C2_OrderIndependent ==
  (MaskShown /\ \A n \in PlaneNames : HasSetPixel(n) => env.colors[n] \in ExplicitColors) =>
    \A o \in Perms(PlaneNames) :
      Composite(env.mask, o, env.colors, UsedAlpha).maskRGB = Shown

\* C3: every pixel with no contributing plane has alpha 0 and R = G = B = 0,
\* whatever the global transparency; so a mask with no bit set gives alpha 0
\* everywhere.
C3_UncoveredTransparent ==
  MaskShown =>
    \A p \in Pixels : Contributing(p) = {} => Shown[p] = <<0, 0, 0, 0>>

\* a pixel set only in ignored planes next to a covered, visible pixel
C3_Witness ==
  /\ MaskShown
  /\ \E p \in Pixels : env.mask[p] # 0 /\ Contributing(p) = {}
  /\ \E q \in Pixels : Contributing(q) # {} /\ Shown[q][A] > 0

\* C4: when no pixel belongs to more than one contributing plane, each
\* covered pixel has exactly the colour of the plane covering it, and every
\* covered pixel the one alpha value 255 * (1 - globalAlpha) as stored in
\* eight bits.
C4_SinglePlaneExact ==
  (MaskShown /\ \A p \in Pixels : Cardinality(Contributing(p)) <= 1) =>
    \A p \in Pixels : \A n \in Contributing(p) :
      Shown[p] = <<ToRGB8(Resolved(n))[R], ToRGB8(Resolved(n))[G],
                   ToRGB8(Resolved(n))[B], AlphaByte(UsedAlpha)>>

\* two disjoint regions with the colours lime and red
C4_Witness ==
  /\ MaskShown
  /\ \A p \in Pixels : Cardinality(Contributing(p)) <= 1
  /\ \E p \in Pixels, q \in Pixels, n \in PlaneNames, m \in PlaneNames :
       /\ Contributing(p) = {n} /\ Contributing(q) = {m}
       /\ env.colors[n] = "lime" /\ env.colors[m] = "red"

\* C5: the fallback generator is advanced once for each plane with a set
\* pixel and no configured colour, and for no other plane: the k-th such
\* plane in iteration order is drawn in the generator's k-th colour.
C5_GeneratorPerQualifyingPlane ==
  MaskShown =>
    /\ last.used = Cardinality({n \in PlaneNames : Qualifies(n)})
    /\ \A n \in PlaneNames :
         last.color[n] =
           IF ~HasSetPixel(n) THEN "<skipped>"
           ELSE IF Unconfigured(n) THEN GeneratorColor(Rank(n))
           ELSE IF Ignored(n) THEN "<ignored>"
           ELSE env.colors[n]

\* an uncoloured plane with set pixels that follows an uncoloured plane
\* without any
C5_Witness ==
  /\ MaskShown
  /\ \E n \in PlaneNames, m \in PlaneNames :
       /\ Qualifies(n) /\ Pos(m) < Pos(n)
       /\ Unconfigured(m) /\ ~HasSetPixel(m)

\* the mask with the bit of plane n cleared everywhere
ClearPlane(n) ==
  [p \in Pixels |->
     IF InPlane(p, n) THEN env.mask[p] - 2 ^ MaskPlaneDict[n] ELSE env.mask[p]]

\* C6: an ignored plane contributes neither colour nor coverage: the
\* composite is the one of the same mask with that plane's bit cleared, and a
\* pixel set only in ignored planes has count 0 and alpha 0.
C6_IgnoredPlaneAbsent ==
  MaskShown =>
    /\ \A n \in PlaneNames : Ignored(n) =>
         \E c \in {Composite(ClearPlane(n), env.order, env.colors, UsedAlpha)} :
           c.maskRGB = Shown /\ c.nSet = last.nSet /\ c.used = last.used
    /\ \A p \in Pixels : Contributing(p) = {} =>
         last.nSet[p] = 0 /\ Shown[p][A] = 0

\* an ignored plane set on a pixel of its own and on a pixel another plane
\* covers
C6_Witness ==
  /\ MaskShown
  /\ \E n \in PlaneNames, p \in Pixels, q \in Pixels :
       /\ Ignored(n) /\ InPlane(p, n) /\ InPlane(q, n)
       /\ Contributing(p) = {} /\ Contributing(q) # {}

\* the place of the first command that is neither a line nor a text, or 0
FirstUnknown(cmds) ==
  IF \E i \in 1..Len(cmds) : cmds[i][1] \notin {"line", "text"}
  THEN CHOOSE i \in 1..Len(cmds) :
         /\ cmds[i][1] \notin {"line", "text"}
         /\ \A j \in 1..(i - 1) : cmds[j][1] \in {"line", "text"}
  ELSE 0

C8_InternalTransparency ==
  /\ maskTransparency = DefaultTransparency
  /\ [][/\ IF last'.op = "setMaskTransparency" /\ last'.maskplane = <<>>
           THEN maskTransparency' = last'.transparency[1]
           ELSE maskTransparency' = maskTransparency
        /\ last'.op = "getMaskTransparency" => last'.ret = <<maskTransparency>>
        /\ (last'.op = "mtv" /\ last'.hasMask /\ last'.dispAlpha = <<>>) =>
             /\ last'.alpha = <<maskTransparency>>
             /\ \A p \in Pixels : last'.nSet[p] > 0 =>
                  canvas'[1].data[p][A] = AlphaByte(maskTransparency)]_vars

\* an _mtv over a covered pixel, the getter returning nothing, after the
\* transparency was set
C8_Witness ==
  /\ MaskShown /\ last.dispAlpha = <<>>
  /\ maskTransparency # DefaultTransparency
  /\ \E p \in Pixels : last.nSet[p] > 0

\* C9: a completed _mtv leaves on the canvas exactly the image of its mask,
\* or nothing when it was given no mask; the canvas is empty after _erase.
C9_CanvasAfterMtv ==
  /\ last.op = "mtv" =>
       IF last.hasMask
       THEN /\ Len(canvas) = 1
            /\ canvas[1].kind = "image"
            /\ canvas[1].data =
                 Composite(env.mask, env.order, env.colors, UsedAlpha).maskRGB
       ELSE canvas = <<>>
  /\ last.op = "erase" => canvas = <<>>

\* an _mtv with a mask over a canvas that held an earlier image and a symbol
C9_Witness ==
  /\ MaskShown
  /\ last.deleted >= 2

\* C10: the redraw flag is true at first; _buffer(enable) sets it to the
\* negation of enable and no other operation changes it; every object _dot
\* and _drawLines add is added with the flag; _flush asks the viewer to
\* redraw.
C10_RedrawFlag ==
  /\ redraw = TRUE
  /\ [][/\ IF last'.op = "buffer"
           THEN redraw' = ~last'.enable[1]
           ELSE redraw' = redraw
        /\ last'.op \in {"dot", "drawLines"} =>
             \A i \in 1..Len(last'.adds) : last'.adds[i] = redraw
        /\ last'.op = "flush" => last'.whence = <<FlushWhence>>]_vars

\* objects added while buffering
C10_Witness ==
  /\ last.op \in {"dot", "drawLines"}
  /\ Len(last.adds) >= 1
  /\ ~redraw /\ ~last.adds[1]

====
